---- MODULE Spec2Model ----
(***************************************************************************)
(* Generational genetic algorithm for the travelling-salesman problem      *)
(* (main.py, function run): tournament selection, ordered crossover,       *)
(* inversion mutation, hall-of-fame elitism.  Distances are integers       *)
(* (miles); individuals are Python objects, so lists hold references into  *)
(* a heap and the in-place operators act on the heap.                      *)
(***************************************************************************)
EXTENDS Integers, Sequences, FiniteSets

(* ------------------------------------------------------------------ *)
(* Bounds of the model and constants of the program                    *)
(* ------------------------------------------------------------------ *)

\* Population size (main.py POP = 300, scaled down)
POP == 2

\* Number of generations (main.py GEN = 1000, scaled down)
GEN == 2

\* Tournament size
TRN == 3

\* Crossover rate, mutation rate and inversion probability, per mille
CXR == 850

MUT == 200

INDPB == 825

\* Size of HallOfFame(1)
maxsize == 1

\* The seeded generator's output: a cycle of StreamLen raw values in
\* 0..RawRange-1, a raw value r standing for the float r / RawRange
StreamLen == 3

RawRange == 7

(* ------------------------------------------------------------------ *)
(* Inputs of run(): the distance matrix and the number of cities       *)
(* ------------------------------------------------------------------ *)

\* Symmetric, zero-diagonal matrices as distance_matrix builds them:
\* one city; two cities; three cities on a 3-4-5 triangle; four cities on
\* the corners of a 3 x 4 rectangle (tours of length 14, 16 and 18).
Instances ==
    { << <<0>> >>,
      << <<0, 5>>, <<5, 0>> >>,
      << <<0, 3, 5>>, <<3, 0, 4>>, <<5, 4, 0>> >>,
      << <<0, 3, 5, 4>>, <<3, 0, 4, 5>>, <<5, 4, 0, 3>>, <<4, 5, 3, 0>> >> }

VARIABLES
    distance,       \* run's argument: distance[i+1][j+1] is the distance i -> j
    n_cities,       \* run's argument
    pc,             \* position in run()
    heap,           \* the Individual objects: heap[id] = [list, fitness]
    pop,            \* the list pop: references into heap
    offspring,      \* the list chosen / offspring: references into heap
    best_route,     \* HallOfFame.items: deep copies, best first
    best_per_gen,   \* the trace
    gen,            \* loop variable of the evolution loop
    i,              \* index of the inner loop in progress (0-based)
    draws,          \* what the random calls of the latest step returned
    result,         \* what run() returned (or "ValueError")
    stream,         \* the raw stream random.seed(SEED) produces
    rpos,           \* position of the global generator in its stream
    calls,          \* number of calls of run() started
    first           \* what the first call of run() returned

vars == << distance, n_cities, pc, heap, pop, offspring, best_route,
           best_per_gen, gen, i, draws, result, stream, rpos,
           calls, first >>

(* ------------------------------------------------------------------ *)
(* Individuals and fitness                                             *)
(* ------------------------------------------------------------------ *)

\* A maximising fitness: weights=(1.0,)
weightsMax == << 1 >>

\* creator.create("FitnessMin", base.Fitness, weights=(-1.0,))
weights == << -1 >>

\* creator.Individual(list) with a fresh FitnessMin: no values yet
Individual(l) == [list |-> l, fitness |-> << >>]

\* Fitness.valid: len(self.wvalues) != 0
valid(ind) == Len(ind.fitness) # 0

\* Fitness.wvalues: values times weights
wvalues(f) == [k \in 1..Len(f) |-> f[k] * weights[k]]

\* Tuple comparison w1 > w2 of Python
TupleGT(w1, w2) ==
    IF Len(w1) = 0 THEN FALSE
    ELSE IF Len(w2) = 0 THEN TRUE
    ELSE w1[1] > w2[1]

\* Fitness.__gt__: self.wvalues > other.wvalues
FitnessGT(f1, f2) == TupleGT(wvalues(f1), wvalues(f2))

\* The fitness left as it is
KeepFitness(ind) == ind

\* del ind.fitness.values
DelFitness(ind) == [ind EXCEPT !.fitness = << >>]

\* ind.fitness.values = fit
SetFitness(ind, fit) == [ind EXCEPT !.fitness = fit]

RECURSIVE TourSum(_, _, _, _)
TourSum(d, n, l, k) ==
    IF k = n THEN 0
    ELSE d[l[k + 1] + 1][l[((k + 1) % n) + 1] + 1] + TourSum(d, n, l, k + 1)

\* evaluate(individual): the cyclic tour length, as a 1-tuple
evaluate(l) == << TourSum(distance, n_cities, l, 0) >>

\* The permutations random.sample(range(n), n) can return
Permutations(n) ==
    { p \in [1..n -> 0..(n - 1)] : \A x, y \in 1..n : p[x] = p[y] => x = y }

(* ------------------------------------------------------------------ *)
(* Operators of the toolbox                                            *)
(* ------------------------------------------------------------------ *)

\* toolbox.clone: a deep copy, stored as a new object at the end of the heap
clone(ind) == [list |-> ind.list, fitness |-> ind.fitness]

\* The slice shifted by one: individual[a:b] = individual[a+1:b+1][::-1]
ReverseShifted(l, a, b) ==
    [k \in 1..Len(l) |->
        IF a + 1 <= k /\ k <= b THEN l[a + b + 2 - k] ELSE l[k]]

\* individual[a:b] = individual[a:b][::-1] (positions a .. b-1, 0-based)
Reverse(l, a, b) ==
    [k \in 1..Len(l) |->
        IF a + 1 <= k /\ k <= b THEN l[a + b + 1 - k] ELSE l[k]]

\* inversion_mutation once random.random() < indpb held and the two
\* sorted positions a < b were sampled
inversion_mutation(l, a, b) == Reverse(l, a, b)

\* cxOrdered's holes: holes[v] stays True unless v is a value of the other
\* parent outside the section a..b
Holes(other, a, b) ==
    [v \in 0..(Len(other) - 1) |->
        ~ \E p \in 0..(Len(other) - 1) :
              (p < a \/ p > b) /\ other[p + 1] = v]

\* cxOrdered's second loop, run in place (temp1, temp2 are ind1, ind2
\* themselves): st = [l1, l2, k1, k2], k the loop index
RECURSIVE CxFill(_, _, _, _, _, _)
CxFill(st, holes1, holes2, b, size, k) ==
    IF k = size THEN st
    ELSE LET t  == ((k + b + 1) % size) + 1
             x1 == st.l1[t]
             s1 == IF ~ holes1[x1]
                   THEN [st EXCEPT !.l1[(st.k1 % size) + 1] = x1,
                                   !.k1 = st.k1 + 1]
                   ELSE st
             x2 == s1.l2[t]
             s2 == IF ~ holes2[x2]
                   THEN [s1 EXCEPT !.l2[(s1.k2 % size) + 1] = x2,
                                   !.k2 = s1.k2 + 1]
                   ELSE s1
         IN  CxFill(s2, holes1, holes2, b, size, k + 1)

\* tools.cxOrdered(ind1, ind2) once the positions a < b were sampled:
\* the two lists after the call
cxOrdered(ind1, ind2, a, b) ==
    LET size   == IF Len(ind1) < Len(ind2) THEN Len(ind1) ELSE Len(ind2)
        holes1 == Holes(ind2, a, b)
        holes2 == Holes(ind1, a, b)
        st     == CxFill([l1 |-> ind1, l2 |-> ind2, k1 |-> b + 1, k2 |-> b + 1],
                         holes1, holes2, b, size, 0)
        \* swap the content between a and b (included)
        n1     == [k \in 1..Len(ind1) |->
                      IF a + 1 <= k /\ k <= b + 1 THEN st.l2[k] ELSE st.l1[k]]
        n2     == [k \in 1..Len(ind2) |->
                      IF a + 1 <= k /\ k <= b + 1 THEN st.l1[k] ELSE st.l2[k]]
    IN  << n1, n2 >>

\* max(aspirants, key=attrgetter("fitness")): the first maximal aspirant
RECURSIVE MaxAspirant(_, _, _)
MaxAspirant(asp, best, k) ==
    IF k > Len(asp) THEN best
    ELSE MaxAspirant(asp,
                     IF FitnessGT(heap[asp[k]].fitness, heap[best].fitness)
                     THEN asp[k] ELSE best,
                     k + 1)

\* The first aspirant, whatever its fitness
selFirst(asp) == asp[1]

\* One round of tools.selTournament: asp[k] is the object random.choice
\* returned for the k-th aspirant; the winner is returned by reference
selTournament(asp) == MaxAspirant(asp, asp[1], 2)

\* HallOfFame.insert: a deep copy placed by bisect_right on the fitness keys
HofInsert(items, ind) ==
    LET le  == Cardinality({h \in 1..Len(items) :
                   ~ FitnessGT(items[h].fitness, ind.fitness)})
        at  == Len(items) - le
    IN  SubSeq(items, 1, at) \o << clone(ind) >> \o SubSeq(items, at + 1, Len(items))

\* HallOfFame.update(population), from its k-th individual on
RECURSIVE HofUpdate(_, _, _)
HofUpdate(items, population, k) ==
    IF k > Len(population) THEN items
    ELSE LET ind == population[k] IN
         IF Len(items) = 0 /\ maxsize # 0
         THEN HofUpdate(HofInsert(items, population[1]), population, k + 1)
         ELSE IF FitnessGT(ind.fitness, items[Len(items)].fitness)
                 \/ Len(items) < maxsize
         THEN IF \E h \in 1..Len(items) : items[h].list = ind.list
              THEN HofUpdate(items, population, k + 1)
              ELSE HofUpdate(
                       HofInsert(IF Len(items) >= maxsize
                                 THEN SubSeq(items, 1, Len(items) - 1)
                                 ELSE items, ind),
                       population, k + 1)
         ELSE HofUpdate(items, population, k + 1)

\* best_route.update(population) on a list of references
update(items, refs, h) == HofUpdate(items, [k \in 1..Len(refs) |-> h[refs[k]]], 1)

(* ------------------------------------------------------------------ *)
(* run(distance, n_cities), step by step                               *)
(* ------------------------------------------------------------------ *)

\* Nothing drawn: op names the step, asp the aspirants of a tournament,
\* g1 and g2 the gates of a mutation
NoDraws == [op |-> "none", asp |-> << >>, g1 |-> FALSE, g2 |-> FALSE]

NoResult == [status |-> "none", tour |-> << >>, distance |-> << >>, trace |-> << >>]

\* The frame of a call of run() before its first statement
Fresh ==
    /\ pc = "start"
    /\ heap = << >>
    /\ pop = << >>
    /\ offspring = << >>
    /\ best_route = << >>
    /\ best_per_gen = << >>
    /\ gen = 0
    /\ i = 0
    /\ draws = NoDraws
    /\ result = NoResult

\* for gen in range(1, GEN)
LoopOverEarly(g) == g >= GEN

\* for gen in range(1, GEN + 1): the loop is over once gen exceeds GEN
LoopOver(g) == g > GEN

\* Number of pairs of zip(offspring[::2], offspring[1::2])
Pairs(l) == Len(l) \div 2

\* No call of random.seed: the generator goes on from where it is
noseed(pos) == pos

\* random.seed(SEED): the generator restarts its stream, wherever it was
seed(pos) == 0

\* Lines 92-116: seed the generators, set up the toolbox and the hall of fame
Start ==
    /\ pc = "start"
    /\ rpos' = seed(rpos)
    /\ calls' = calls + 1
    /\ best_route' = << >>
    /\ pc' = "population"
    /\ UNCHANGED << distance, n_cities, heap, pop, offspring, best_per_gen,
                    gen, i, draws, result, stream, first >>

\* Line 116, one round of initRepeat: toolbox.individual() with
\* random.sample(range(n_cities), n_cities) returning p
NewIndividual(p) ==
    /\ pc = "population"
    /\ Len(pop) < POP
    /\ heap' = Append(heap, Individual(p))
    /\ pop' = Append(pop, Len(heap) + 1)
    /\ pc' = IF Len(pop) + 1 = POP THEN "evaluate0" ELSE "population"
    /\ UNCHANGED << distance, n_cities, offspring, best_route, best_per_gen,
                    gen, i, draws, result, stream, calls, first >>

\* Lines 119-125: evaluate the initial population, update the hall of fame
EvaluateInitial ==
    /\ pc = "evaluate0"
    /\ LET h == [k \in 1..Len(heap) |-> SetFitness(heap[k], evaluate(heap[k].list))]
       IN  /\ heap' = h
           /\ best_route' = update(best_route, pop, h)
    /\ best_per_gen' = << >>
    /\ gen' = 1
    /\ pc' = IF LoopOver(1) THEN "return" ELSE "select"
    /\ UNCHANGED << distance, n_cities, pop, offspring, i, draws, result,
                    stream, rpos, calls, first >>

\* Line 130, one round of selTournament(pop, len(pop), tournsize=TRN)
Tournament(asp) ==
    /\ pc = "select"
    /\ Len(offspring) < Len(pop)
    /\ offspring' = Append(offspring, selTournament(asp))
    /\ draws' = [NoDraws EXCEPT !.op = "select", !.asp = asp]
    /\ pc' = IF Len(offspring) + 1 = Len(pop) THEN "clone" ELSE "select"
    /\ UNCHANGED << distance, n_cities, heap, pop, best_route, best_per_gen,
                    gen, i, result, stream, calls, first >>

\* The selected individuals used as they are, without line 131
Aliased(h, refs) == [heap |-> h, offspring |-> refs]

\* Line 131: offspring = list(map(toolbox.clone, offspring)): one new object
\* per entry, the list referring to the new objects
CloneAll(h, refs) ==
    [heap      |-> h \o [k \in 1..Len(refs) |-> clone(h[refs[k]])],
     offspring |-> [k \in 1..Len(refs) |-> Len(h) + k]]

Clone ==
    /\ pc = "clone"
    /\ heap' = CloneAll(heap, offspring).heap
    /\ offspring' = CloneAll(heap, offspring).offspring
    /\ i' = 0
    /\ draws' = NoDraws
    /\ pc' = IF Pairs(offspring) > 0 THEN "mate" ELSE "mutate"
    /\ UNCHANGED << distance, n_cities, pop, best_route, best_per_gen, gen,
                    result, stream, rpos, calls, first >>

\* Lines 134-138, one pair: gate is random.random() < CXR; a < b are the
\* positions cxOrdered samples
Mate(gate, a, b) ==
    /\ pc = "mate"
    /\ gate => n_cities >= 2
    /\ LET c1 == offspring[2 * i + 1]
           c2 == offspring[2 * i + 2]
           ch == cxOrdered(heap[c1].list, heap[c2].list, a, b)
       IN  heap' = IF gate
                   THEN [heap EXCEPT ![c1] = DelFitness([@ EXCEPT !.list = ch[1]]),
                                     ![c2] = DelFitness([@ EXCEPT !.list = ch[2]])]
                   ELSE heap
    /\ i' = IF i + 1 = Pairs(offspring) THEN 0 ELSE i + 1
    /\ pc' = IF i + 1 = Pairs(offspring) THEN "mutate" ELSE "mate"
    /\ UNCHANGED << distance, n_cities, pop, offspring, best_route,
                    best_per_gen, gen, draws, result, stream, calls,
                    first >>

\* Line 136 with fewer than two cities: cxOrdered's
\* random.sample(range(size), 2) raises ValueError out of run()
MateRaises ==
    /\ pc = "mate"
    /\ n_cities < 2
    /\ result' = [NoResult EXCEPT !.status = "ValueError"]
    /\ pc' = "raised"
    /\ UNCHANGED << distance, n_cities, heap, pop, offspring, best_route,
                    best_per_gen, gen, i, draws, stream, calls, first >>

\* Lines 141-144 with line 144 outside the if: the fitness is deleted
\* whether or not random.random() < MUT held
MutateAlwaysDel(g1, g2, a, b) ==
    /\ pc = "mutate"
    /\ g2 => g1 /\ n_cities >= 2
    /\ LET m == offspring[i + 1]
       IN  heap' = [heap EXCEPT ![m] = DelFitness(
                        IF g2 THEN [@ EXCEPT !.list = inversion_mutation(@, a, b)]
                              ELSE @)]
    /\ draws' = [NoDraws EXCEPT !.op = "mutate", !.g1 = g1, !.g2 = g2]
    /\ i' = IF i + 1 = Len(offspring) THEN 0 ELSE i + 1
    /\ pc' = IF i + 1 = Len(offspring) THEN "evaluate" ELSE "mutate"
    /\ UNCHANGED << distance, n_cities, pop, offspring, best_route,
                    best_per_gen, gen, result, stream, calls, first >>

\* Lines 141-144, one mutant: g1 is random.random() < MUT, g2 is that and
\* random.random() < indpb (drawn only once g1 held), a < b the sorted
\* sampled positions
Mutate(g1, g2, a, b) ==
    /\ pc = "mutate"
    /\ g2 => g1 /\ n_cities >= 2
    /\ LET m == offspring[i + 1]
       IN  heap' = IF g1
                   THEN [heap EXCEPT ![m] = DelFitness(
                            IF g2 THEN [@ EXCEPT !.list = inversion_mutation(@, a, b)]
                                  ELSE @)]
                   ELSE heap
    /\ draws' = [NoDraws EXCEPT !.op = "mutate", !.g1 = g1, !.g2 = g2]
    /\ i' = IF i + 1 = Len(offspring) THEN 0 ELSE i + 1
    /\ pc' = IF i + 1 = Len(offspring) THEN "evaluate" ELSE "mutate"
    /\ UNCHANGED << distance, n_cities, pop, offspring, best_route,
                    best_per_gen, gen, result, stream, calls, first >>

\* Line 86 with fewer than two cities: random.sample(range(size), 2)
\* raises ValueError out of run()
MutateRaises ==
    /\ pc = "mutate"
    /\ n_cities < 2
    /\ draws' = [NoDraws EXCEPT !.op = "mutate", !.g1 = TRUE, !.g2 = TRUE]
    /\ result' = [NoResult EXCEPT !.status = "ValueError"]
    /\ pc' = "raised"
    /\ UNCHANGED << distance, n_cities, heap, pop, offspring, best_route,
                    best_per_gen, gen, i, stream, calls, first >>

\* Lines 147-150: evaluate the offspring whose fitness is invalid
Evaluate ==
    /\ pc = "evaluate"
    /\ LET invalid == {offspring[k] : k \in {j \in 1..Len(offspring) :
                                                ~ valid(heap[offspring[j]])}}
           h == [k \in 1..Len(heap) |->
                    IF k \in invalid
                    THEN SetFitness(heap[k], evaluate(heap[k].list))
                    ELSE heap[k]]
       IN  heap' = h
    /\ draws' = NoDraws
    /\ pc' = "keep"
    /\ UNCHANGED << distance, n_cities, pop, offspring, best_route,
                    best_per_gen, gen, i, result, stream, rpos, calls, first >>

\* Lines 153-157: inject the best route, replace the population, update the
\* hall of fame, record the trace.  The objects pop no longer refers to are
\* dropped and the survivors renumbered 1..Len(pop).
KeepBest ==
    /\ pc = "keep"
    /\ LET h1   == Append(heap, clone(best_route[1]))
           off  == [offspring EXCEPT ![1] = Len(h1)]
           h2   == [k \in 1..Len(off) |-> h1[off[k]]]
           refs == [k \in 1..Len(off) |-> k]
           br   == update(best_route, refs, h2)
       IN  /\ heap' = h2
           /\ pop' = refs
           /\ best_route' = br
           /\ best_per_gen' = Append(best_per_gen, br[1].fitness[1])
    /\ offspring' = << >>
    /\ gen' = gen + 1
    /\ pc' = IF LoopOver(gen + 1) THEN "return" ELSE "select"
    /\ UNCHANGED << distance, n_cities, i, draws, result, stream,
                    rpos, calls, first >>

\* Lines 159-161
Return ==
    /\ pc = "return"
    /\ result' = [status |-> "ok",
                  tour |-> best_route[1].list,
                  distance |-> best_route[1].fitness,
                  trace |-> best_per_gen]
    /\ pc' = "done"
    /\ UNCHANGED << distance, n_cities, heap, pop, offspring, best_route,
                    best_per_gen, gen, i, draws, stream, rpos,
                    calls, first >>

(* ------------------------------------------------------------------ *)
(* One call of run(), every random call free to return any outcome     *)
(* ------------------------------------------------------------------ *)

\* Pairs of sorted distinct positions of a list of n elements
Positions(n) == {ab \in (0..(n - 1)) \X (0..(n - 1)) : ab[1] < ab[2]}

\* An outcome standing for "not sampled"
NoPositions == << 0, 0 >>

Init ==
    /\ distance \in Instances
    /\ n_cities = Len(distance)
    /\ Fresh
    /\ stream = << >>
    /\ rpos = 0
    /\ calls = 0
    /\ first = NoResult

Population ==
    /\ pc = "population"
    /\ \E p \in Permutations(n_cities) : NewIndividual(p)
    /\ UNCHANGED rpos

Select ==
    /\ pc = "select"
    /\ \E asp \in [1..TRN -> 1..Len(pop)] :
          Tournament([k \in 1..TRN |-> pop[asp[k]]])
    /\ UNCHANGED rpos

Crossover ==
    /\ pc = "mate"
    /\ \E gate \in BOOLEAN :
          \E ab \in (IF gate THEN Positions(n_cities) ELSE {NoPositions}) :
              Mate(gate, ab[1], ab[2])
    /\ UNCHANGED rpos

CrossoverRaises == MateRaises /\ UNCHANGED rpos

Mutation ==
    /\ pc = "mutate"
    /\ \E g1 \in BOOLEAN :
          \E g2 \in (IF g1 THEN BOOLEAN ELSE {FALSE}) :
              \E ab \in (IF g2 THEN Positions(n_cities) ELSE {NoPositions}) :
                  Mutate(g1, g2, ab[1], ab[2])
    /\ UNCHANGED rpos

MutationRaises == MutateRaises /\ UNCHANGED rpos

Next ==
    \/ Start
    \/ Population
    \/ EvaluateInitial
    \/ Select
    \/ Clone
    \/ Crossover
    \/ CrossoverRaises
    \/ Mutation
    \/ MutationRaises
    \/ Evaluate
    \/ KeepBest
    \/ Return

Spec == Init /\ [][Next]_vars

(* ------------------------------------------------------------------ *)
(* The selection step alone, on a population of TRN individuals        *)
(* ------------------------------------------------------------------ *)

\* Lists of the individuals a selection step starts from: the tours
\* of the four-city instance that start at city 0 (lengths 14, 16 and 18,
\* two tours each)
SelLists == {p \in Permutations(4) : p[1] = 0}

\* run() with POP = TRN at line 130 of its first generation
InitSel ==
    /\ distance \in {d \in Instances : Len(d) = 4}
    /\ n_cities = Len(distance)
    /\ \E ls \in [1..TRN -> SelLists] :
          /\ heap = [k \in 1..TRN |-> SetFitness(Individual(ls[k]),
                        << TourSum(distance, Len(distance), ls[k], 0) >>)]
          /\ pop = [k \in 1..TRN |-> k]
          /\ best_route = update(<< >>, pop, heap)
    /\ pc = "select"
    /\ offspring = << >>
    /\ best_per_gen = << >>
    /\ gen = 1
    /\ i = 0
    /\ draws = NoDraws
    /\ result = NoResult
    /\ stream = << >>
    /\ rpos = 0
    /\ calls = 1
    /\ first = NoResult

NextSel ==
    \/ Select
    \/ Clone

SpecSel == InitSel /\ [][NextSel]_vars

(* ------------------------------------------------------------------ *)
(* Two calls of run() in one process, the random calls served by the   *)
(* seeded generator                                                    *)
(* ------------------------------------------------------------------ *)

\* The k-th raw value the generator returns from its current position
Raw(k) == stream[((rpos + k) % StreamLen) + 1]

\* random.random() < p, p per mille
Below(r, p) == r * 1000 < p * RawRange

\* The index a raw value selects among m
randbelow(r, m) == (r * m) \div RawRange

\* random.sample(range(n), k), pool algorithm: j = randbelow(n - t);
\* result[t] = pool[j]; pool[j] = pool[n - t - 1]
RECURSIVE SamplePool(_, _, _, _, _)
SamplePool(pool, n, k, from, t) ==
    IF t = k THEN << >>
    ELSE LET j == randbelow(Raw(from + t), n - t)
         IN  << pool[j + 1] >>
             \o SamplePool([pool EXCEPT ![j + 1] = pool[n - t]], n, k, from, t + 1)

sample(n, k, from) == SamplePool([x \in 1..n |-> x - 1], n, k, from, 0)

\* a, b = sorted(random.sample(range(size), 2))
SortedPair(s) == IF s[1] < s[2] THEN << s[1], s[2] >> ELSE << s[2], s[1] >>

Advance(k) == rpos' = (rpos + k) % StreamLen

\* Every cycle of raw values
Streams == [1..StreamLen -> 0..(RawRange - 1)]

InitDet ==
    /\ distance \in Instances
    /\ n_cities = Len(distance)
    /\ Fresh
    /\ stream \in Streams
    /\ rpos \in 0..(StreamLen - 1)
    /\ calls = 0
    /\ first = NoResult

PopulationDet ==
    /\ pc = "population"
    /\ NewIndividual(sample(n_cities, n_cities, 0))
    /\ Advance(n_cities)

SelectDet ==
    /\ pc = "select"
    /\ Tournament([k \in 1..TRN |-> pop[randbelow(Raw(k - 1), Len(pop)) + 1]])
    /\ Advance(TRN)

CrossoverDet ==
    /\ pc = "mate"
    /\ LET gate == Below(Raw(0), CXR)
           ab   == IF gate /\ n_cities >= 2
                   THEN SortedPair(sample(n_cities, 2, 1))
                   ELSE NoPositions
       IN  /\ Mate(gate, ab[1], ab[2])
           /\ Advance(IF gate THEN 3 ELSE 1)

CrossoverRaisesDet ==
    /\ pc = "mate"
    /\ Below(Raw(0), CXR)
    /\ MateRaises
    /\ Advance(1)

MutationDet ==
    /\ pc = "mutate"
    /\ LET g1 == Below(Raw(0), MUT)
           g2 == g1 /\ Below(Raw(1), INDPB)
           ab == IF g2 /\ n_cities >= 2
                 THEN SortedPair(sample(n_cities, 2, 2))
                 ELSE NoPositions
       IN  /\ Mutate(g1, g2, ab[1], ab[2])
           /\ Advance(IF g2 THEN 4 ELSE IF g1 THEN 2 ELSE 1)

MutationRaisesDet ==
    /\ pc = "mutate"
    /\ Below(Raw(0), MUT)
    /\ Below(Raw(1), INDPB)
    /\ MutateRaises
    /\ Advance(2)

\* The caller keeps what the first call returned (or raised) and calls
\* run() again with the same arguments
Rerun ==
    /\ pc \in {"done", "raised"}
    /\ calls = 1
    /\ first' = result
    /\ pc' = "start"
    /\ heap' = << >>
    /\ pop' = << >>
    /\ offspring' = << >>
    /\ best_route' = << >>
    /\ best_per_gen' = << >>
    /\ gen' = 0
    /\ i' = 0
    /\ draws' = NoDraws
    /\ result' = NoResult
    /\ UNCHANGED << distance, n_cities, stream, rpos, calls >>

NextDet ==
    \/ Start
    \/ PopulationDet
    \/ EvaluateInitial
    \/ SelectDet
    \/ Clone
    \/ CrossoverDet
    \/ CrossoverRaisesDet
    \/ MutationDet
    \/ MutationRaisesDet
    \/ Evaluate
    \/ KeepBest
    \/ Return
    \/ Rerun

SpecDet == InitDet /\ [][NextDet]_vars

\* run() is sequential code: a step that can be taken is taken
FairSpec == Spec /\ WF_vars(Next)

(* ------------------------------------------------------------------ *)
(* Properties                                                          *)
(* ------------------------------------------------------------------ *)

\* l holds each of 0 .. n_cities-1 exactly once
IsPermutation(l) ==
    /\ Len(l) = n_cities
    /\ \A v \in 0..(n_cities - 1) : Cardinality({k \in 1..Len(l) : l[k] = v}) = 1

\* The fitness an individual carries is the length of its tour
Consistent(ind) == ind.fitness = evaluate(ind.list)

Range(f) == {f[k] : k \in DOMAIN f}

PopLists == {heap[pop[k]].list : k \in 1..Len(pop)}

\* C1 (permutation validity): with two cities or more, every individual of
\* the population, every offspring and the hall of fame's BestEver is a
\* list of exactly n_cities indices holding each of 0..n_cities-1 once,
\* in the initial population and at every later point of the run.
C1_PermutationValidity ==
    n_cities >= 2 =>
        /\ \A k \in 1..Len(heap) : IsPermutation(heap[k].list)
        /\ \A k \in 1..Len(pop) : pop[k] \in 1..Len(heap)
        /\ \A h \in 1..Len(best_route) : IsPermutation(best_route[h].list)

\* A crossover and a fired inversion have produced an offspring whose list
\* is none of the population's
C1_Witness ==
    /\ n_cities = 4
    /\ pc = "evaluate"
    /\ draws.g2
    /\ ~ valid(heap[offspring[1]])
    /\ heap[offspring[Len(offspring)]].list \notin PopLists
    /\ IsPermutation(heap[offspring[Len(offspring)]].list)

BestFit == best_route[1].fitness[1]

\* C2 (monotonic elitism): the trace best_per_gen is non-increasing, and
\* BestEver's fitness never increases from one step of the run to the next.
C2_MonotonicTrace ==
    /\ [](\A k \in 1..(Len(best_per_gen) - 1) :
             best_per_gen[k + 1] <= best_per_gen[k])
    /\ [][(best_route # << >> /\ best_route' # << >>)
             => best_route'[1].fitness[1] <= BestFit]_vars

\* A run whose trace went down from one generation to the next
C2_Witness ==
    /\ pc = "done"
    /\ Len(result.trace) >= 2
    /\ result.trace[2] < result.trace[1]

\* C3 (degenerate instance): a run with one city does not raise and
\* returns the tour [0], the distance 0 and a trace of GEN zeros.
C3_DegenerateCompletes ==
    n_cities = 1 =>
        /\ pc # "raised"
        /\ pc = "done" => result = [status |-> "ok", tour |-> << 0 >>,
                                    distance |-> << 0 >>,
                                    trace |-> [k \in 1..GEN |-> 0]]

\* pop[m] has strictly the least fitness of the population
StrictMin(m) ==
    \A k \in (1..Len(pop)) \ {m} :
        heap[pop[m]].fitness[1] < heap[pop[k]].fitness[1]

\* C4 as claimed (selection pressure): when one individual of the
\* population is strictly minimal and the tournament size equals the
\* population size, every tournament selects it, so the offspring pool
\* holds nothing but copies of it.
C4_EveryTournamentSelectsMin ==
    \A m \in 1..Len(pop) :
        (StrictMin(m) /\ TRN = Len(pop) /\ pc \in {"select", "clone", "mate"})
            => \A k \in 1..Len(offspring) :
                   heap[offspring[k]].list = heap[pop[m]].list

\* C4 as amended: a tournament selects an individual it drew whose fitness
\* is the least among those it drew; it selects the strictly minimal
\* individual of the population whenever that individual is among them.
C4_TournamentSelectsDrawnMin ==
    draws.op = "select" =>
        LET w == offspring[Len(offspring)]
        IN  /\ w \in Range(draws.asp)
            /\ \A a \in Range(draws.asp) :
                   heap[w].fitness[1] <= heap[a].fitness[1]
            /\ \A m \in 1..Len(pop) :
                   (StrictMin(m) /\ pop[m] \in Range(draws.asp)) => w = pop[m]

\* A tournament as large as the population drew the strictly minimal
\* individual last, after two others, and selected it
C4_Witness ==
    /\ draws.op = "select"
    /\ TRN = Len(pop)
    /\ \E m \in 1..Len(pop) :
          /\ StrictMin(m)
          /\ draws.asp[TRN] = pop[m]
          /\ draws.asp[1] # pop[m]
          /\ draws.asp[2] # pop[m]
          /\ offspring[Len(offspring)] = pop[m]

\* The step that ends a generation leaves a BestEver no worse than any
\* offspring of that generation
BestEverCoversGeneration ==
    pc = "keep" =>
        \A k \in 1..Len(offspring) :
            best_route'[1].fitness[1] <= heap[offspring[k]].fitness[1]

\* C5 (BestEver minimality): the BestEver a generation ends with is no
\* worse than any offspring evaluated in that generation, the one in slot 0
\* before the elitism overwrite included (BestEver never gets worse, so
\* this is the claim for every individual evaluated so far).
C5_BestEverMinimal == [][BestEverCoversGeneration]_vars

\* C6 (determinism): a second call of run() with the same arguments
\* returns the same tour, the same distance and the same trace as the
\* first (or raises as the first did).
C6_Determinism ==
    (calls = 2 /\ pc \in {"done", "raised"}) => result = first

\* Two completed calls on the four-city instance whose trace went down
C6_Witness ==
    /\ calls = 2
    /\ pc = "done"
    /\ n_cities = 4
    /\ first.status = "ok"
    /\ first.trace[GEN] < first.trace[1]
    /\ result.tour = first.tour

\* C7 (fixed-length run): with two cities or more run() never raises, has
\* appended one value to the trace per completed generation, leaves the
\* loop only after GEN generations, and terminates returning a trace of
\* exactly GEN entries.
C7_FixedLengthRun ==
    /\ [](n_cities >= 2 =>
            /\ pc # "raised"
            /\ pc \in {"select", "clone", "mate", "mutate", "evaluate", "keep"}
                  => (gen \in 1..GEN /\ Len(best_per_gen) = gen - 1)
            /\ pc \in {"return", "done"}
                  => (gen = GEN + 1 /\ Len(best_per_gen) = GEN)
            /\ pc = "done" => Len(result.trace) = GEN)
    /\ (n_cities >= 2 => <>(pc = "done"))

\* A run on four cities has returned
C7_Witness ==
    /\ pc = "done"
    /\ n_cities = 4
    /\ gen = GEN + 1
    /\ Len(result.trace) = GEN

\* C8 (fitness consistency): whenever selection reads the population, and
\* when the run returns, every individual of the population carries the
\* length of its own tour; so does BestEver at all times, and the distance
\* returned is the length of the tour returned.
C8_FitnessConsistent ==
    /\ pc \in {"select", "clone", "return", "done"}
          => \A k \in 1..Len(pop) : Consistent(heap[pop[k]])
    /\ \A h \in 1..Len(best_route) : Consistent(best_route[h])
    /\ pc = "done" => result.distance = evaluate(result.tour)

\* The second generation starts with an individual that is not BestEver's
\* copy and is longer than it, carrying its own tour's length
C8_Witness ==
    /\ pc = "select"
    /\ gen = 2
    /\ heap[pop[2]].list # best_route[1].list
    /\ heap[pop[2]].fitness[1] > BestFit
    /\ Consistent(heap[pop[2]])
    /\ BestFit < 18

\* The offspring the step in progress works on
Touched ==
    IF pc = "mate" THEN {offspring[2 * i + 1], offspring[2 * i + 2]}
    ELSE {offspring[i + 1]}

\* What a crossover or mutation step leaves alone
IsolatedStep ==
    pc \in {"mate", "mutate"} =>
        /\ pop' = pop
        /\ offspring' = offspring
        /\ best_route' = best_route
        /\ \A k \in 1..Len(heap) : k \notin Touched => heap'[k] = heap[k]
        /\ \A k \in 1..Len(pop) : pop[k] \notin Touched
        /\ \A j, k \in 1..Len(offspring) :
               offspring[j] = offspring[k] => j = k

\* C9 (copy isolation): a crossover or mutation step changes no individual
\* of the population, no offspring outside the pair (or the mutant) it
\* works on and not BestEver; the offspring are objects of their own; and
\* BestEver's list changes only to that of a strictly better individual.
C9_CopyIsolation ==
    /\ [][IsolatedStep]_vars
    /\ [][(best_route # << >> /\ best_route' # << >>
             /\ best_route'[1].list # best_route[1].list)
            => best_route'[1].fitness[1] < BestFit]_vars

\* Both offspring are copies of the same parent; the inversion of the first
\* fired and changed it; the second and the parent are as they were
C9_Witness ==
    /\ pc = "mutate"
    /\ i = 1
    /\ draws.g2
    /\ heap[offspring[2]] \in {heap[pop[k]] : k \in 1..Len(pop)}
    /\ heap[offspring[1]].list \notin PopLists
    /\ \E a \in 0..(n_cities - 1), b \in 0..n_cities :
          Reverse(heap[offspring[1]].list, a, b) = heap[offspring[2]].list

\* C10 as claimed: a mutation step invalidates the fitness only when the
\* inversion fires; an offspring for which either gate fails keeps its
\* list and its fitness as they were.
C10_InvalidatedOnlyOnFiring ==
    [][(pc = "mutate" /\ pc' # "raised" /\ ~ draws'.g2)
          => heap'[offspring[i + 1]] = heap[offspring[i + 1]]]_vars

\* What a mutation step does to the offspring it works on
MutationStepEffect ==
    (pc = "mutate" /\ pc' # "raised") =>
        LET m == offspring[i + 1]
        IN  /\ ~ draws'.g1 => heap'[m] = heap[m]
            /\ draws'.g1 => ~ valid(heap'[m])
            /\ ~ draws'.g2 => heap'[m].list = heap[m].list

\* C10 as amended: the fitness is invalidated whenever the outer gate
\* (MUT) succeeds, whether or not the inner gate (indpb) fires the
\* inversion; an offspring for which the outer gate fails keeps its list
\* and its fitness; an offspring for which the inner gate fails keeps its
\* list.
C10_InvalidatedOnOuterGate == [][MutationStepEffect]_vars

\* The outer gate succeeded and the inner gate failed for the first
\* offspring of a pair that was not crossed: its fitness is gone, its list
\* is still the parent's
C10_Witness ==
    /\ pc = "mutate"
    /\ i = 1
    /\ draws.g1
    /\ ~ draws.g2
    /\ ~ valid(heap[offspring[1]])
    /\ valid(heap[offspring[2]])
    /\ heap[offspring[1]].list \in PopLists

====
